---- MODULE Spec2Model ----
(***************************************************************************)
(* Model of src/notifications.py: the template table, the three channel    *)
(* providers (email, sms, push), NotificationManager.send_notification and *)
(* NotificationManager.send_bulk_notification.                             *)
(*                                                                         *)
(* A Python dict is a function whose DOMAIN is its set of keys; a list is  *)
(* a sequence.  An exception leaving a function is a value of the frame    *)
(* variable "raised".                                                      *)
(***************************************************************************)
EXTENDS Integers, Sequences, FiniteSets, TLC

VARIABLES
    config,           \* the Config flags ENABLE_*_NOTIFICATIONS
    sendgrid_client,  \* EmailNotificationService.sendgrid_client is not None
    twilio_client,    \* SMSNotificationService.twilio_client is not None
    fcm_available,    \* PushNotificationService.fcm_available
    pc,               \* position inside send_notification
    caller,           \* who called send_notification: "none", "direct", "bulk"
    user,             \* argument user of send_notification
    template_name,    \* argument template_name
    variables,        \* argument variables
    channels_arg,     \* argument channels as passed ([is_none, list])
    channels,         \* local channels after the None default
    common_vars,      \* local common_vars
    results,          \* local results (dict channel -> bool)
    raised,           \* exception leaving send_notification ("none" if none)
    provider_calls,   \* send_template_* invocations of the current call
    transport_calls,  \* transport invocations of the current call
    bulk_pc,          \* position inside send_bulk_notification
    bulk_args,        \* arguments template_name, variables, channels of the bulk call
    bulk_i,           \* number of recipients the bulk loop has taken
    bulk_results,     \* local results of send_bulk_notification
    bulk_raised,      \* exception leaving send_bulk_notification
    bulk_history,     \* history: what became of each recipient the loop has counted
    render_call,      \* arguments of the last direct render_template call
    render_result,    \* what that call returned or raised
    email_call,       \* arguments of the last direct send_template_email call
    email_result,     \* what that call returned
    previous,         \* what a caller keeps of its first send_notification call
    other             \* the frame of a second thread's call while it does not run

vars == <<config, sendgrid_client, twilio_client, fcm_available, pc, caller,
          user, template_name, variables, channels_arg, channels, common_vars,
          results, raised, provider_calls, transport_calls,
          bulk_pc, bulk_args, bulk_i, bulk_results, bulk_raised, bulk_history,
          render_call, render_result, email_call, email_result, previous, other>>

frame == <<user, template_name, variables, channels_arg, channels, common_vars,
           results, raised, provider_calls, transport_calls>>

services == <<config, sendgrid_client, twilio_client, fcm_available>>

render == <<render_call, render_result>>

callers == <<email_call, email_result, previous, other>>

bulk == <<bulk_pc, bulk_args, bulk_i, bulk_results, bulk_raised, bulk_history>>

----------------------------------------------------------------------------
(* Python dict helpers *)

EmptyDict == [k \in {} |-> TRUE]

\* dict.get(k, default)
Get(d, k, default) == IF k \in DOMAIN d THEN d[k] ELSE default

\* {**a, **b}: the keys of b override those of a
Merge(a, b) == [k \in (DOMAIN a) \cup (DOMAIN b) |-> IF k \in DOMAIN b THEN b[k] ELSE a[k]]

\* the value None, which is no dict: it has no get and no keys
NoneValue == [None |-> TRUE]

IsMapping(u) == "None" \notin DOMAIN u

\* x in list
InList(x, list) == \E i \in 1..Len(list) : list[i] = x

----------------------------------------------------------------------------
(* NotificationTemplate: the template table and render_template.           *)
(* A template slot is a sequence of tokens: literal text, {{v}}, and the   *)
(* two conditional blocks {% if v > 0 %}..{% endif %}, {% if v %}..        *)
(* A rendered string is the sequence of its pieces.                        *)

Lit(s) == [t |-> "lit", s |-> s]

Var(v) == [t |-> "var", v |-> v]

IfGt0(v, body) == [t |-> "ifgt0", v |-> v, body |-> body]

IfTruthy(v, body) == [t |-> "if", v |-> v, body |-> body]

\* numbers are carried as their decimal strings
Numerals == {"0", "1", "2", "3"}

PositiveNumerals == Numerals \ {"0"}

Slots == {"subject", "email_body", "sms_body", "push_title", "push_body"}

event_created ==
    [subject    |-> <<Lit("New Alumni Event: "), Var("event_title")>>,
     email_body |-> <<Lit("<h2>New Alumni Event</h2>Hello "), Var("user_name"),
                      Lit("<h3>"), Var("event_title"),
                      Lit("Date:"), Var("start_time"),
                      Lit("Location:"), Var("venue"),
                      Lit("Description:"), Var("description"),
                      Lit("href="), Var("rsvp_link"), Lit("RSVP Now")>>,
     sms_body   |-> <<Lit("New event: "), Var("event_title"), Lit(" on "), Var("start_time"),
                      Lit(" at "), Var("venue"), Lit(". RSVP: "), Var("rsvp_link")>>,
     push_title |-> <<Lit("New Alumni Event")>>,
     push_body  |-> <<Var("event_title"), Lit(" - "), Var("start_time"),
                      Lit(" at "), Var("venue")>>]

rsvp_confirmation ==
    [subject    |-> <<Lit("RSVP Confirmation: "), Var("event_title")>>,
     email_body |-> <<Lit("<h2>RSVP Confirmation</h2>Hello "), Var("user_name"),
                      Lit("Thank you for RSVPing "), Var("status"),
                      Lit("<h3>"), Var("event_title"),
                      Lit("Date:"), Var("start_time"),
                      Lit("Location:"), Var("venue"),
                      IfGt0("guests", <<Lit("Guests:"), Var("guests")>>),
                      IfTruthy("notes", <<Lit("Notes:"), Var("notes")>>),
                      Lit("href="), Var("event_link"), Lit("View Event Details")>>,
     sms_body   |-> <<Lit("RSVP confirmed: "), Var("status"), Lit(" for "),
                      Var("event_title"), Lit(" on "), Var("start_time")>>,
     push_title |-> <<Lit("RSVP Confirmed")>>,
     push_body  |-> <<Lit("You're "), Var("status"), Lit(" for "), Var("event_title")>>]

event_reminder ==
    [subject    |-> <<Lit("Event Reminder: "), Var("event_title")>>,
     email_body |-> <<Lit("<h2>Event Reminder</h2>Hello "), Var("user_name"),
                      Lit("<h3>"), Var("event_title"),
                      Lit("Date:"), Var("start_time"),
                      Lit("Location:"), Var("venue"),
                      Lit("Time until event:"), Var("time_until"),
                      Lit("href="), Var("event_link"), Lit("View Event Details")>>,
     sms_body   |-> <<Lit("Reminder: "), Var("event_title"), Lit(" in "),
                      Var("time_until"), Lit(" at "), Var("venue")>>,
     push_title |-> <<Lit("Event Reminder")>>,
     push_body  |-> <<Var("event_title"), Lit(" is in "), Var("time_until")>>]

event_cancelled ==
    [subject    |-> <<Lit("Event Cancelled: "), Var("event_title")>>,
     email_body |-> <<Lit("<h2>Event Cancelled</h2>Hello "), Var("user_name"),
                      Lit("<h3>"), Var("event_title"),
                      Lit("Was scheduled for:"), Var("start_time"),
                      Lit("Reason:"), Var("cancellation_reason")>>,
     sms_body   |-> <<Lit("Event cancelled: "), Var("event_title"), Lit(" - "),
                      Var("cancellation_reason")>>,
     push_title |-> <<Lit("Event Cancelled")>>,
     push_body  |-> <<Var("event_title"), Lit(" has been cancelled")>>]

templates ==
    [event_created     |-> event_created,
     rsvp_confirmation |-> rsvp_confirmation,
     event_reminder    |-> event_reminder,
     event_cancelled   |-> event_cancelled]

\* {{v}}: an undefined variable renders as the empty string
Subst(v, vs) == Get(vs, v, "")

\* the pieces of a conditional's body (literals and substitutions only)
RenderBody(body, vs) ==
    [i \in 1..Len(body) |-> IF body[i].t = "lit" THEN body[i].s ELSE Subst(body[i].v, vs)]

\* does evaluating the token raise inside Template.render?
\* v > 0 raises for an undefined v and for a v that is not a number
TokenRaises(tok, vs) ==
    /\ tok.t = "ifgt0"
    /\ \/ tok.v \notin DOMAIN vs
       \/ vs[tok.v] \notin Numerals

\* the exception of a token that raises: jinja2's Undefined refuses the
\* comparison, Python refuses str > int
TokenError(tok, vs) ==
    IF tok.v \notin DOMAIN vs THEN "UndefinedError" ELSE "TypeError"

\* the pieces one token renders to
RenderToken(tok, vs) ==
    CASE tok.t = "lit"   -> <<tok.s>>
      [] tok.t = "var"   -> <<Subst(tok.v, vs)>>
      [] tok.t = "ifgt0" -> IF Get(vs, tok.v, "0") \in PositiveNumerals
                            THEN RenderBody(tok.body, vs) ELSE <<>>
      [] tok.t = "if"    -> IF Get(vs, tok.v, "") \notin {"", "0"}
                            THEN RenderBody(tok.body, vs) ELSE <<>>

RECURSIVE RenderTokens(_, _)
RenderTokens(toks, vs) ==
    IF toks = <<>> THEN <<>>
    ELSE RenderToken(Head(toks), vs) \o RenderTokens(Tail(toks), vs)

\* mutant of render_template: an unknown name or slot renders as nothing
render_template_lenient(name, template_type, vs) ==
    IF name \notin DOMAIN templates \/ template_type \notin DOMAIN templates[name]
    THEN [ok |-> TRUE, error |-> "none", message |-> "", text |-> <<>>]
    ELSE [ok |-> TRUE, error |-> "none", message |-> "",
          text |-> RenderTokens(templates[name][template_type], vs)]

\* render_template: the string (ok, text) or the exception (error, message)
render_template(name, template_type, vs) ==
    IF name \notin DOMAIN templates
    THEN [ok |-> FALSE, error |-> "ValueError", message |-> "Template not found", text |-> <<>>]
    ELSE IF template_type \notin DOMAIN templates[name]
    THEN [ok |-> FALSE, error |-> "ValueError", message |-> "Template type not found",
          text |-> <<>>]
    ELSE LET content == templates[name][template_type] IN
         IF \E i \in 1..Len(content) : TokenRaises(content[i], vs)
         THEN LET i == CHOOSE j \in 1..Len(content) :
                         /\ TokenRaises(content[j], vs)
                         /\ \A k \in 1..(j - 1) : ~TokenRaises(content[k], vs)
              IN  [ok |-> FALSE, error |-> TokenError(content[i], vs),
                   message |-> "", text |-> <<>>]
         ELSE [ok |-> TRUE, error |-> "none", message |-> "",
               text |-> RenderTokens(content, vs)]

----------------------------------------------------------------------------
(* Function results.  A call either returns a value or raises; either way  *)
(* it leaves behind the transport invocations it made.                     *)

Ret(v, tc) == [raised |-> "none", result |-> v, transport |-> tc]

Exc(e, tc) == [raised |-> e, result |-> FALSE, transport |-> tc]

\* mutant of CatchAll: the try/except is missing
CatchNothing(r) == r

\* try: <body>  except Exception as e: logger.error(...); return False
CatchAll(r) == IF r.raised # "none" THEN Ret(FALSE, r.transport) ELSE r

----------------------------------------------------------------------------
(* The transports.  What a transport does with one request is not decided  *)
(* by this program: it raises, or it answers.                              *)

SendGridStatuses == {202, 400}

SendGridOutcomes ==
    {[exc |-> TRUE, status |-> 0]} \cup {[exc |-> FALSE, status |-> s] : s \in SendGridStatuses}

FlaskMailOutcomes == {[exc |-> TRUE], [exc |-> FALSE]}

TwilioStatuses == {"queued", "sent", "failed"}

TwilioOutcomes ==
    {[exc |-> TRUE, status |-> ""]} \cup {[exc |-> FALSE, status |-> s] : s \in TwilioStatuses}

FcmOutcomes(device_tokens) ==
    {[exc |-> TRUE, success_count |-> 0]}
        \cup {[exc |-> FALSE, success_count |-> n] : n \in 0..Len(device_tokens)}

EmailOutcomes == IF sendgrid_client THEN SendGridOutcomes ELSE FlaskMailOutcomes

----------------------------------------------------------------------------
(* EmailNotificationService *)

_send_via_sendgrid(to_email, subject, html_content, text_content, o) ==
    LET call == [transport |-> "sendgrid", to |-> to_email, subject |-> subject,
                 body |-> html_content, outcome |-> o]
    IN  IF o.exc THEN Exc("TransportError", <<call>>)
        ELSE Ret(o.status \in {200, 201, 202}, <<call>>)

_send_via_flask_mail(to_email, subject, html_content, text_content, o) ==
    LET call == [transport |-> "flask_mail", to |-> to_email, subject |-> subject,
                 body |-> html_content, outcome |-> o]
    IN  IF o.exc THEN Exc("TransportError", <<call>>)
        ELSE Ret(TRUE, <<call>>)

\* mutant of send_email: a failed SendGrid send is retried over Flask-Mail
send_email_with_retry(to_email, subject, html_content, text_content, o) ==
    IF sendgrid_client
    THEN LET first == CatchAll(_send_via_sendgrid(to_email, subject, html_content,
                                                  text_content, o))
             again == CatchAll(_send_via_flask_mail(to_email, subject, html_content,
                                                    text_content, [exc |-> FALSE]))
         IN  IF first.result THEN first
             ELSE Ret(again.result, first.transport \o again.transport)
    ELSE CatchAll(_send_via_flask_mail(to_email, subject, html_content, text_content, o))

send_email(to_email, subject, html_content, text_content, o) ==
    CatchAll(IF sendgrid_client
             THEN _send_via_sendgrid(to_email, subject, html_content, text_content, o)
             ELSE _send_via_flask_mail(to_email, subject, html_content, text_content, o))

send_template_email(to_email, name, vs, o) ==
    LET subject      == render_template(name, "subject", vs)
        html_content == render_template(name, "email_body", vs)
        text_content == render_template(name, "sms_body", vs)
    IN  CatchAll(IF ~subject.ok THEN Exc(subject.error, <<>>)
                 ELSE IF ~html_content.ok THEN Exc(html_content.error, <<>>)
                 ELSE IF ~text_content.ok THEN Exc(text_content.error, <<>>)
                 ELSE send_email(to_email, subject.text, html_content.text,
                                 text_content.text, o))

----------------------------------------------------------------------------
(* SMSNotificationService *)

\* mutant of send_sms: the test of the client is missing
send_sms_unchecked(to_phone, message, o) ==
    LET call == [transport |-> "twilio", to |-> to_phone, subject |-> <<>>,
                 body |-> message, outcome |-> o]
    IN  CatchAll(IF o.exc \/ ~twilio_client THEN Exc("TransportError", <<call>>)
                 ELSE Ret(o.status \in {"queued", "sending", "sent"}, <<call>>))

send_sms(to_phone, message, o) ==
    IF ~twilio_client THEN Ret(FALSE, <<>>)
    ELSE LET call == [transport |-> "twilio", to |-> to_phone, subject |-> <<>>,
                      body |-> message, outcome |-> o]
         IN  CatchAll(IF o.exc THEN Exc("TransportError", <<call>>)
                      ELSE Ret(o.status \in {"queued", "sending", "sent"}, <<call>>))

send_template_sms(to_phone, name, vs, o) ==
    LET message == render_template(name, "sms_body", vs)
    IN  CatchAll(IF ~message.ok THEN Exc(message.error, <<>>)
                 ELSE send_sms(to_phone, message.text, o))

----------------------------------------------------------------------------
(* PushNotificationService *)

\* mutant of send_push_notification: a multicast that reached no token is
\* sent once more
send_push_notification_retry(device_tokens, title, body, o) ==
    IF ~fcm_available THEN Ret(FALSE, <<>>)
    ELSE LET call == [transport |-> "fcm", to |-> device_tokens, subject |-> title,
                      body |-> body, outcome |-> o]
         IN  CatchAll(IF o.exc THEN Exc("TransportError", <<call>>)
                      ELSE IF o.success_count > 0 THEN Ret(TRUE, <<call>>)
                      ELSE Ret(FALSE, <<call, call>>))

\* mutant of send_push_notification: any answer of the multicast counts
send_push_notification_any_answer(device_tokens, title, body, o) ==
    IF ~fcm_available THEN Ret(FALSE, <<>>)
    ELSE LET call == [transport |-> "fcm", to |-> device_tokens, subject |-> title,
                      body |-> body, outcome |-> o]
         IN  CatchAll(IF o.exc THEN Exc("TransportError", <<call>>)
                      ELSE Ret(o.success_count >= 0, <<call>>))

send_push_notification(device_tokens, title, body, o) ==
    IF ~fcm_available THEN Ret(FALSE, <<>>)
    ELSE LET call == [transport |-> "fcm", to |-> device_tokens, subject |-> title,
                      body |-> body, outcome |-> o]
         IN  CatchAll(IF o.exc THEN Exc("TransportError", <<call>>)
                      ELSE Ret(o.success_count > 0, <<call>>))

send_template_push(device_tokens, name, vs, o) ==
    LET title == render_template(name, "push_title", vs)
        body  == render_template(name, "push_body", vs)
    IN  CatchAll(IF ~title.ok THEN Exc(title.error, <<>>)
                 ELSE IF ~body.ok THEN Exc(body.error, <<>>)
                 ELSE send_push_notification(device_tokens, title.text, body.text, o))

----------------------------------------------------------------------------
(* The inputs the callers draw from *)

MaxRecipients == 2

Channels == {"email", "sms", "push"}

\* an optional dict key: absent ({}) or present with one value ({x})
Opt(S) == {{}} \cup {{x} : x \in S}

Field(k, opt) == IF opt = {} THEN EmptyDict ELSE (k :> (CHOOSE x \in opt : TRUE))

\* a record either carries all three preferences (as UserModel.create_user and
\* the profile form write them) or an empty preference map
PreferenceMaps == [Channels -> BOOLEAN] \cup {EmptyDict}

MkUser(n, e, p, d, pr) ==
    Field("name", n) @@ Field("email", e) @@ Field("phone", p)
        @@ Field("device_tokens", d) @@ Field("preferences", pr)

Users ==
    {MkUser({"Ann"}, e, p, d, {pr}) :
        e \in Opt({"ann@example.org"}), p \in Opt({"", "555"}),
        d \in Opt({<<>>, <<"t1", "t2">>}), pr \in PreferenceMaps}

\* records with every address, with and without a name, an email, preferences
ContentUsers ==
    {MkUser(n, e, {"555"}, {<<"t1", "t2">>}, pr) :
        n \in Opt({"Ann"}), e \in Opt({"ann@example.org"}),
        pr \in {{}, {[c \in Channels |-> TRUE]}}}

PlainVariables == [event_title |-> "Gala"]

VariableMaps ==
    {PlainVariables,
     [event_title |-> "Gala", user_name |-> "Mallory"],
     [event_title |-> "Gala", user_email |-> "mallory@example.org"]}

TemplateNames == {"event_created", "no_such_template"}

NoChannels == [is_none |-> TRUE, list |-> <<>>]

ChannelLists ==
    {NoChannels} \cup
    {[is_none |-> FALSE, list |-> l] :
        l \in {<<"email">>, <<"sms">>, <<"push">>, <<"email", "sms">>, <<"email", "fax">>,
               <<"email", "sms", "push">>, <<"push", "sms", "email">>}}

AllChannels == [is_none |-> FALSE, list |-> <<"email", "sms", "push">>]

\* the calls of send_notification: every record and channel list with one
\* template and variable map, and every template and variable map with the
\* records that have every address
Requests ==
    {<<u, "event_created", PlainVariables, arg>> : u \in Users, arg \in ChannelLists}
        \cup {<<u, name, vs, arg>> : u \in ContentUsers, name \in TemplateNames,
                                     vs \in VariableMaps, arg \in {NoChannels, AllChannels}}

\* the recipients of a bulk send: with or without an email, with or without
\* the other addresses, with no preferences, all of them on or all of them off
BulkUsers ==
    {MkUser({"Ann"}, e, a[1], a[2], pr) :
        e \in Opt({"ann@example.org"}),
        a \in {<<{}, {}>>, <<{"555"}, {<<"t1", "t2">>}>>},
        pr \in {{}, {[c \in Channels |-> TRUE]}, {[c \in Channels |-> FALSE]}}}

BulkRequests ==
    {<<name, PlainVariables, arg>> : name \in TemplateNames, arg \in {NoChannels, AllChannels}}

----------------------------------------------------------------------------
(* NotificationManager.send_notification *)

Put(d, k, v) == [x \in (DOMAIN d) \cup {k} |-> IF x = k THEN v ELSE d[x]]

\* if channels is None: channels = ['email']
DefaultChannels(arg) == IF arg.is_none THEN <<"email">> ELSE arg.list

CommonVars(u, vs) ==
    Merge([user_name |-> Get(u, "name", "Alumni"), user_email |-> Get(u, "email", "")], vs)

Preferences(u) == Get(u, "preferences", EmptyDict)

\* user.get('phone') is truthy
HasPhone(u) == "phone" \in DOMAIN u /\ u["phone"] # ""

\* mutant of HasDeviceTokens: tests the key, not the truth value
HasDeviceTokensKey(u) == "device_tokens" \in DOMAIN u

\* user.get('device_tokens') is truthy
HasDeviceTokens(u) == "device_tokens" \in DOMAIN u /\ u["device_tokens"] # <<>>

\* mutant of EmailSelected: a manager that remembers it has sent before
EmailSelectedOnce ==
    /\ InList("email", channels)
    /\ config.ENABLE_EMAIL_NOTIFICATIONS
    /\ previous.calls = 0

EmailSelected == InList("email", channels) /\ config.ENABLE_EMAIL_NOTIFICATIONS

\* mutant of SmsSelected: the test of the channels argument is missing
SmsSelectedUnrequested == config.ENABLE_SMS_NOTIFICATIONS

SmsSelected == InList("sms", channels) /\ config.ENABLE_SMS_NOTIFICATIONS

PushSelected == InList("push", channels) /\ config.ENABLE_PUSH_NOTIFICATIONS

\* mutant of EmailAllowed: the preference is not consulted
EmailAllowedAlways(u) == TRUE

EmailAllowed(u) == Get(Preferences(u), "email", TRUE)

\* mutant of SmsAllowed: the preference is not consulted
SmsAllowedIgnoringPreference(u) == HasPhone(u)

SmsAllowed(u) == Get(Preferences(u), "sms", FALSE) /\ HasPhone(u)

\* mutant of PushAllowed: an absent preference counts as opted out
PushAllowedDefaultOff(u) == Get(Preferences(u), "push", FALSE) /\ HasDeviceTokens(u)

PushAllowed(u) == Get(Preferences(u), "push", TRUE) /\ HasDeviceTokens(u)

Invocation(service, target) ==
    [service |-> service, target |-> target, template |-> template_name, vars |-> common_vars]

\* mutant of Dispatch: the call is put in front of the earlier ones, as if
\* the channels were walked in the opposite order
DispatchFront(channel, target, r, next) ==
    /\ provider_calls' = <<Invocation(channel, target)>> \o provider_calls
    /\ transport_calls' = r.transport \o transport_calls
    /\ results' = Put(results, channel, r.result)
    /\ pc' = next
    /\ UNCHANGED raised

\* mutant of Dispatch: a channel that failed ends the call
DispatchStopOnFailure(channel, target, r, next) ==
    /\ provider_calls' = Append(provider_calls, Invocation(channel, target))
    /\ transport_calls' = transport_calls \o r.transport
    /\ results' = Put(results, channel, r.result)
    /\ pc' = IF r.result THEN next ELSE "returned"
    /\ UNCHANGED raised

\* results[channel] = <provider>.send_template_*(...), then go on at `next`
Dispatch(channel, target, r, next) ==
    /\ provider_calls' = Append(provider_calls, Invocation(channel, target))
    /\ transport_calls' = transport_calls \o r.transport
    /\ IF r.raised # "none"
       THEN /\ raised' = r.raised
            /\ pc' = "raised"
            /\ UNCHANGED results
       ELSE /\ results' = Put(results, channel, r.result)
            /\ pc' = next
            /\ UNCHANGED raised

\* mutant of ProvidersKept: a provider whose send failed is switched off
ProvidersDroppedOnFailure ==
    /\ UNCHANGED <<config, sendgrid_client, fcm_available>>
    /\ twilio_client' = (twilio_client /\ ~("sms" \in DOMAIN results' /\ ~results'["sms"]))

\* no send path assigns config or a provider's client attribute
ProvidersKept == UNCHANGED services

\* mutant of ArgumentsKept: user.setdefault('preferences', {}) for user.get
ArgumentsWithDefaults ==
    /\ user' = IF "preferences" \in DOMAIN user THEN user
               ELSE Put(user, "preferences", EmptyDict)
    /\ UNCHANGED variables

\* user and variables are only read (user.get, user[...], **variables)
ArgumentsKept == UNCHANGED <<user, variables>>

\* mutant of RaiseKeyError: user.get('email') for user['email']
SkipKeyError ==
    /\ pc' = "sms"
    /\ UNCHANGED raised

\* user['email'] on a record without the key
RaiseKeyError ==
    /\ raised' = "KeyError"
    /\ pc' = "raised"

Enter(u, name, vs, arg, who) ==
    /\ user' = u
    /\ template_name' = name
    /\ variables' = vs
    /\ channels_arg' = arg
    /\ channels' = DefaultChannels(arg)
    /\ results' = EmptyDict
    /\ provider_calls' = <<>>
    /\ transport_calls' = <<>>
    /\ caller' = who
    /\ IF IsMapping(u)
       THEN /\ common_vars' = CommonVars(u, vs)
            /\ raised' = "none"
            /\ pc' = "email"
       ELSE \* user.get('name', 'Alumni') on a value that has no get
            /\ common_vars' = EmptyDict
            /\ raised' = "AttributeError"
            /\ pc' = "raised"

SendNotification(u, name, vs, arg) ==
    /\ pc = "idle"
    /\ bulk_pc = "idle"
    /\ Enter(u, name, vs, arg, "direct")
    /\ UNCHANGED <<services, render, callers, bulk>>

EmailStep ==
    /\ pc = "email"
    /\ IF EmailSelected
       THEN IF EmailAllowed(user)
            THEN IF "email" \in DOMAIN user
                 THEN \E o \in EmailOutcomes :
                        Dispatch("email", user["email"],
                                 send_template_email(user["email"], template_name, common_vars, o),
                                 "sms")
                 ELSE /\ RaiseKeyError
                      /\ UNCHANGED <<results, provider_calls, transport_calls>>
            ELSE /\ results' = Put(results, "email", FALSE)
                 /\ IF "email" \in DOMAIN user
                    THEN pc' = "sms" /\ UNCHANGED raised
                    ELSE RaiseKeyError
                 /\ UNCHANGED <<provider_calls, transport_calls>>
       ELSE /\ pc' = "sms"
            /\ UNCHANGED <<results, raised, provider_calls, transport_calls>>
    /\ ProvidersKept
    /\ ArgumentsKept
    /\ UNCHANGED <<render, callers, bulk, caller, template_name, channels_arg, channels,
                   common_vars>>

SmsStep ==
    /\ pc = "sms"
    /\ IF SmsSelected
       THEN IF SmsAllowed(user)
            THEN \E o \in TwilioOutcomes :
                   Dispatch("sms", user["phone"],
                            send_template_sms(user["phone"], template_name, common_vars, o),
                            "push")
            ELSE /\ results' = Put(results, "sms", FALSE)
                 /\ pc' = "push"
                 /\ UNCHANGED <<raised, provider_calls, transport_calls>>
       ELSE /\ pc' = "push"
            /\ UNCHANGED <<results, raised, provider_calls, transport_calls>>
    /\ ProvidersKept
    /\ ArgumentsKept
    /\ UNCHANGED <<render, callers, bulk, caller, template_name, channels_arg, channels,
                   common_vars>>

PushStep ==
    /\ pc = "push"
    /\ IF PushSelected
       THEN IF PushAllowed(user)
            THEN \E o \in FcmOutcomes(user["device_tokens"]) :
                   Dispatch("push", user["device_tokens"],
                            send_template_push(user["device_tokens"], template_name,
                                               common_vars, o),
                            "returned")
            ELSE /\ results' = Put(results, "push", FALSE)
                 /\ pc' = "returned"
                 /\ UNCHANGED <<raised, provider_calls, transport_calls>>
       ELSE /\ pc' = "returned"
            /\ UNCHANGED <<results, raised, provider_calls, transport_calls>>
    /\ ProvidersKept
    /\ ArgumentsKept
    /\ UNCHANGED <<render, callers, bulk, caller, template_name, channels_arg, channels,
                   common_vars>>

\* the frame of a call that is over is dropped
Leave ==
    /\ user' = EmptyDict
    /\ template_name' = ""
    /\ variables' = EmptyDict
    /\ channels_arg' = NoChannels
    /\ channels' = <<>>
    /\ results' = EmptyDict
    /\ common_vars' = EmptyDict
    /\ raised' = "none"
    /\ provider_calls' = <<>>
    /\ transport_calls' = <<>>
    /\ pc' = "idle"
    /\ caller' = "none"

\* the direct caller has the result map, or the exception
Finish ==
    /\ pc \in {"returned", "raised"}
    /\ caller = "direct"
    /\ Leave
    /\ UNCHANGED <<services, render, callers, bulk>>

----------------------------------------------------------------------------
(* NotificationManager.send_bulk_notification.  The loop takes the         *)
(* recipients of its list one by one; the list ends after at most          *)
(* MaxRecipients of them.                                                  *)

NoBulkArgs == [template_name |-> "", variables |-> EmptyDict, channels_arg |-> NoChannels,
               channels |-> <<>>]

\* mutant of AnyTrue: all() instead of any()
AllTrue(d) == \A k \in DOMAIN d : d[k]

\* any(user_results.values())
AnyTrue(d) == \E k \in DOMAIN d : d[k]

\* mutant of Incr: the counter is incremented twice
IncrTwice(counts, k) == [counts EXCEPT ![k] = @ + 2]

Incr(counts, k) == [counts EXCEPT ![k] = @ + 1]

SendBulkNotification(name, vs, arg) ==
    /\ pc = "idle"
    /\ bulk_pc = "idle"
    /\ bulk_pc' = "loop"
    /\ bulk_args' = [template_name |-> name, variables |-> vs, channels_arg |-> arg,
                     channels |-> DefaultChannels(arg)]
    /\ bulk_i' = 0
    /\ bulk_results' = [success |-> 0, failed |-> 0, skipped |-> 0]
    /\ bulk_raised' = "none"
    /\ bulk_history' = <<>>
    /\ UNCHANGED <<services, render, callers, pc, caller, frame>>

\* for user in users: ... self.send_notification(user, 'bulk', template_name, variables, channels)
BulkTake(u) ==
    /\ bulk_pc = "loop"
    /\ pc = "idle"
    /\ bulk_i < MaxRecipients
    /\ Enter(u, bulk_args.template_name, bulk_args.variables,
             [is_none |-> FALSE, list |-> bulk_args.channels], "bulk")
    /\ bulk_i' = bulk_i + 1
    /\ UNCHANGED <<services, render, callers, bulk_pc, bulk_args, bulk_results, bulk_raised,
                   bulk_history>>

\* which counter a step of the loop has incremented
Counted(before, after) ==
    IF after = before THEN "none"
    ELSE CHOOSE k \in DOMAIN before : after[k] # before[k]

\* history: the recipient whose call is over, and what the loop did with it
Seen(before, after) ==
    [missing_email |-> IsMapping(user) /\ "email" \notin DOMAIN user,
     mapping       |-> IsMapping(user),
     raised        |-> raised,
     attempted     |-> Len(provider_calls) > 0,
     any_true      |-> pc = "returned" /\ (\E k \in DOMAIN results : results[k]),
     any_false     |-> pc = "returned" /\ (\E k \in DOMAIN results : ~results[k]),
     counted       |-> Counted(before, after),
     by            |-> IF after = before THEN 0
                       ELSE after[Counted(before, after)] - before[Counted(before, after)]]

\* mutant of BulkCount: the loop body has no try/except
BulkCountUncaught ==
    /\ bulk_pc = "loop"
    /\ caller = "bulk"
    /\ pc \in {"returned", "raised"}
    /\ IF pc = "raised"
       THEN /\ bulk_raised' = raised
            /\ bulk_pc' = "raised"
            /\ UNCHANGED bulk_results
       ELSE /\ bulk_results' = IF AnyTrue(results)
                               THEN Incr(bulk_results, "success")
                               ELSE Incr(bulk_results, "failed")
            /\ UNCHANGED <<bulk_pc, bulk_raised>>
    /\ bulk_history' = Append(bulk_history, Seen(bulk_results, bulk_results'))
    /\ Leave
    /\ UNCHANGED <<services, render, callers, bulk_args, bulk_i>>

\* the call is over: count the recipient
\*   try: user_results = ...; if any(user_results.values()): success += 1 else: failed += 1
\*   except Exception as e: logger.error(f"... {user.get('email', 'unknown')} ..."); failed += 1
BulkCount ==
    /\ bulk_pc = "loop"
    /\ caller = "bulk"
    /\ pc \in {"returned", "raised"}
    /\ IF pc = "raised" /\ ~IsMapping(user)
       THEN \* user.get in the handler raises in its turn, and nothing catches it
            /\ bulk_raised' = "AttributeError"
            /\ bulk_pc' = "raised"
            /\ UNCHANGED bulk_results
       ELSE /\ bulk_results' = IF pc = "returned" /\ AnyTrue(results)
                               THEN Incr(bulk_results, "success")
                               ELSE Incr(bulk_results, "failed")
            /\ UNCHANGED <<bulk_pc, bulk_raised>>
    /\ bulk_history' = Append(bulk_history, Seen(bulk_results, bulk_results'))
    /\ Leave
    /\ UNCHANGED <<services, render, callers, bulk_args, bulk_i>>

\* the list is exhausted: return results
BulkReturn ==
    /\ bulk_pc = "loop"
    /\ pc = "idle"
    /\ bulk_pc' = "returned"
    /\ UNCHANGED <<services, render, callers, pc, caller, frame, bulk_args, bulk_i, bulk_results,
                   bulk_raised, bulk_history>>

\* the caller of the bulk send has the counts
BulkFinish ==
    /\ bulk_pc \in {"returned", "raised"}
    /\ bulk_pc' = "idle"
    /\ bulk_args' = NoBulkArgs
    /\ bulk_i' = 0
    /\ bulk_results' = [success |-> 0, failed |-> 0, skipped |-> 0]
    /\ bulk_raised' = "none"
    /\ bulk_history' = <<>>
    /\ UNCHANGED <<services, render, callers, pc, caller, frame>>

----------------------------------------------------------------------------
(* Construction (NotificationManager.__init__) and the specification *)

NoRenderCall == [name |-> "", template_type |-> "", variables |-> EmptyDict]

NoRenderResult == [ok |-> FALSE, error |-> "none", message |-> "", text |-> <<>>]

NoEmailCall == [to_email |-> "", name |-> "", variables |-> EmptyDict, outcome |-> EmptyDict]

NoEmailResult == Ret(FALSE, <<>>)

NoPrevious == [calls |-> 0]

\* the frame of a thread that is in no call (what Leave leaves behind)
NoFrame ==
    [pc |-> "idle", caller |-> "none", user |-> EmptyDict, template_name |-> "",
     variables |-> EmptyDict, channels_arg |-> NoChannels, channels |-> <<>>,
     common_vars |-> EmptyDict, results |-> EmptyDict, raised |-> "none",
     provider_calls |-> <<>>, transport_calls |-> <<>>]

Init ==
    /\ config \in [ENABLE_EMAIL_NOTIFICATIONS : BOOLEAN,
                   ENABLE_SMS_NOTIFICATIONS : BOOLEAN,
                   ENABLE_PUSH_NOTIFICATIONS : BOOLEAN]
    /\ sendgrid_client \in BOOLEAN
    /\ twilio_client \in BOOLEAN
    /\ fcm_available \in BOOLEAN
    /\ pc = "idle"
    /\ caller = "none"
    /\ user = EmptyDict
    /\ template_name = ""
    /\ variables = EmptyDict
    /\ channels_arg = NoChannels
    /\ channels = <<>>
    /\ results = EmptyDict
    /\ common_vars = EmptyDict
    /\ raised = "none"
    /\ provider_calls = <<>>
    /\ transport_calls = <<>>
    /\ bulk_pc = "idle"
    /\ bulk_args = NoBulkArgs
    /\ bulk_i = 0
    /\ bulk_results = [success |-> 0, failed |-> 0, skipped |-> 0]
    /\ bulk_raised = "none"
    /\ bulk_history = <<>>
    /\ render_call = NoRenderCall
    /\ render_result = NoRenderResult
    /\ email_call = NoEmailCall
    /\ email_result = NoEmailResult
    /\ previous = NoPrevious
    /\ other = NoFrame

Next ==
    \/ /\ pc = "idle"
       /\ bulk_pc = "idle"
       /\ \E rq \in Requests : SendNotification(rq[1], rq[2], rq[3], rq[4])
    \/ EmailStep
    \/ SmsStep
    \/ PushStep
    \/ Finish
    \/ /\ pc = "idle"
       /\ bulk_pc = "idle"
       /\ \E rq \in BulkRequests : SendBulkNotification(rq[1], rq[2], rq[3])
    \/ /\ bulk_pc = "loop"
       /\ pc = "idle"
       /\ \E u \in BulkUsers : BulkTake(u)
    \/ BulkCount
    \/ BulkReturn
    \/ BulkFinish

Spec == Init /\ [][Next]_vars

\* a recipient list that holds a value that is no record
BulkTakeNone ==
    /\ bulk_pc = "loop"
    /\ pc = "idle"
    /\ BulkTake(NoneValue)

NextMalformed ==
    \/ Next
    \/ BulkTakeNone

SpecMalformed == Init /\ [][NextMalformed]_vars

----------------------------------------------------------------------------
(* Direct calls of NotificationTemplate.render_template, as the tests and  *)
(* the providers make them: any name, any slot, any variable map.          *)

RenderNames == (DOMAIN templates) \cup {"no_such_template"}

RenderSlots == Slots \cup {"no_such_slot"}

\* variable maps with and without the keys the templates reference; guests
\* is a number or a text, notes is empty or not
RenderVariables ==
    {Field("event_title", t) @@ Field("user_name", n) @@ Field("guests", g)
        @@ Field("notes", nt) :
        t \in Opt({"Gala"}), n \in Opt({"Ann"}), g \in Opt({"0", "3", "many"}),
        nt \in Opt({"", "bring a friend"})}

\* the call is made and has returned its string or raised
RenderTemplate(name, template_type, vs) ==
    /\ render_call = NoRenderCall
    /\ render_call' = [name |-> name, template_type |-> template_type, variables |-> vs]
    /\ render_result' = render_template(name, template_type, vs)
    /\ UNCHANGED <<services, callers, pc, caller, frame, bulk>>

\* the caller has taken the result
RenderDone ==
    /\ render_call # NoRenderCall
    /\ render_call' = NoRenderCall
    /\ render_result' = NoRenderResult
    /\ UNCHANGED <<services, callers, pc, caller, frame, bulk>>

NextRender ==
    \/ /\ render_call = NoRenderCall
       /\ \E name \in RenderNames, template_type \in RenderSlots, vs \in RenderVariables :
             RenderTemplate(name, template_type, vs)
    \/ RenderDone

SpecRender == Init /\ [][NextRender]_vars

----------------------------------------------------------------------------
(* Direct calls of EmailNotificationService.send_template_email, as the    *)
(* test of the email service makes them: any template, a variable map with *)
(* or without the variables the template references, and a send_email that *)
(* succeeds or fails.                                                      *)

EmailTemplateNames == (DOMAIN templates) \cup {"no_such_template"}

\* the variables of the test, one by one present or absent, and guests
EmailVariables ==
    {Field("user_name", n) @@ Field("event_title", t) @@ Field("start_time", st)
        @@ Field("venue", v) @@ Field("guests", g) :
        n \in Opt({"Test User"}), t \in Opt({"Test Event"}),
        st \in Opt({"2024-01-01 10:00 AM"}), v \in Opt({"Test Venue"}),
        g \in Opt({"0", "2"})}

SendTemplateEmail(to_email, name, vs, o) ==
    /\ email_call = NoEmailCall
    /\ email_call' = [to_email |-> to_email, name |-> name, variables |-> vs, outcome |-> o]
    /\ email_result' = send_template_email(to_email, name, vs, o)
    /\ UNCHANGED <<services, render, previous, other, pc, caller, frame, bulk>>

\* the caller has taken the result
SendTemplateEmailDone ==
    /\ email_call # NoEmailCall
    /\ email_call' = NoEmailCall
    /\ email_result' = NoEmailResult
    /\ UNCHANGED <<services, render, previous, other, pc, caller, frame, bulk>>

NextEmail ==
    \/ /\ email_call = NoEmailCall
       /\ \E name \in EmailTemplateNames, vs \in EmailVariables, o \in EmailOutcomes :
             SendTemplateEmail("test@example.com", name, vs, o)
    \/ SendTemplateEmailDone

SpecEmail == Init /\ [][NextEmail]_vars

----------------------------------------------------------------------------
(* A caller that makes the same send_notification call twice on one        *)
(* manager and keeps what the first call gave it.                          *)

\* every transport the call reached took the message
AllSucceeded ==
    \A i \in 1..Len(transport_calls) :
        /\ ~transport_calls[i].outcome.exc
        /\ transport_calls[i].transport = "sendgrid"
              => transport_calls[i].outcome.status \in {200, 201, 202}
        /\ transport_calls[i].transport = "twilio"
              => transport_calls[i].outcome.status \in {"queued", "sending", "sent"}
        /\ transport_calls[i].transport = "fcm"
              => transport_calls[i].outcome.success_count > 0

FirstCall(u, name, vs, arg) ==
    /\ previous.calls = 0
    /\ SendNotification(u, name, vs, arg)

\* the first call is over: the caller keeps its arguments and its outcome
KeepFirst ==
    /\ pc \in {"returned", "raised"}
    /\ caller = "direct"
    /\ previous.calls = 0
    /\ previous' = [calls |-> 1, user |-> user, template_name |-> template_name,
                    variables |-> variables, channels_arg |-> channels_arg,
                    results |-> results, raised |-> raised, succeeded |-> AllSucceeded]
    /\ Leave
    /\ UNCHANGED <<services, render, email_call, email_result, other, bulk>>

SecondCall ==
    /\ previous.calls = 1
    /\ SendNotification(previous.user, previous.template_name, previous.variables,
                        previous.channels_arg)

\* the second call is over
DropBoth ==
    /\ pc \in {"returned", "raised"}
    /\ caller = "direct"
    /\ previous.calls = 1
    /\ previous' = NoPrevious
    /\ Leave
    /\ UNCHANGED <<services, render, email_call, email_result, other, bulk>>

NextTwice ==
    \/ /\ pc = "idle"
       /\ previous.calls = 0
       /\ \E rq \in Requests : FirstCall(rq[1], rq[2], rq[3], rq[4])
    \/ EmailStep
    \/ SmsStep
    \/ PushStep
    \/ KeepFirst
    \/ SecondCall
    \/ DropBoth

SpecTwice == Init /\ [][NextTwice]_vars

----------------------------------------------------------------------------
(* Two threads calling send_notification on one manager.  The arguments    *)
(* and locals of a call (the frame) belong to its thread; config and the   *)
(* providers' attributes belong to the manager and are the same for both.  *)
(* The frame variables are those of the thread that runs; `other` keeps    *)
(* the frame of the thread that does not, and a switch exchanges them.     *)

ThisFrame ==
    [pc |-> pc, caller |-> caller, user |-> user, template_name |-> template_name,
     variables |-> variables, channels_arg |-> channels_arg, channels |-> channels,
     common_vars |-> common_vars, results |-> results, raised |-> raised,
     provider_calls |-> provider_calls, transport_calls |-> transport_calls]

\* mutant of Switch: results is an attribute of the manager, not a local
SwitchSharedResults ==
    /\ bulk_pc = "idle"
    /\ pc # "idle" \/ other.pc # "idle"
    /\ other' = ThisFrame
    /\ pc' = other.pc
    /\ caller' = other.caller
    /\ user' = other.user
    /\ template_name' = other.template_name
    /\ variables' = other.variables
    /\ channels_arg' = other.channels_arg
    /\ channels' = other.channels
    /\ common_vars' = other.common_vars
    /\ results' = results
    /\ raised' = other.raised
    /\ provider_calls' = other.provider_calls
    /\ transport_calls' = other.transport_calls
    /\ UNCHANGED <<services, render, email_call, email_result, previous, bulk>>

\* the running thread is suspended and the other one runs
Switch ==
    /\ bulk_pc = "idle"
    /\ pc # "idle" \/ other.pc # "idle"
    /\ other' = ThisFrame
    /\ pc' = other.pc
    /\ caller' = other.caller
    /\ user' = other.user
    /\ template_name' = other.template_name
    /\ variables' = other.variables
    /\ channels_arg' = other.channels_arg
    /\ channels' = other.channels
    /\ common_vars' = other.common_vars
    /\ results' = other.results
    /\ raised' = other.raised
    /\ provider_calls' = other.provider_calls
    /\ transport_calls' = other.transport_calls
    /\ UNCHANGED <<services, render, email_call, email_result, previous, bulk>>

\* the calls the two threads make: records with every address, with and
\* without an email key and preferences, a known and an unknown template,
\* over all channels
ConcurrentUsers ==
    {MkUser({"Ann"}, e, {"555"}, {<<"t1", "t2">>}, pr) :
        e \in Opt({"ann@example.org"}), pr \in {{}, {[c \in Channels |-> TRUE]}}}

ConcurrentRequests ==
    {<<u, name, PlainVariables, AllChannels>> : u \in ConcurrentUsers, name \in TemplateNames}

NextConcurrent ==
    \/ /\ pc = "idle"
       /\ bulk_pc = "idle"
       /\ \E rq \in ConcurrentRequests : SendNotification(rq[1], rq[2], rq[3], rq[4])
    \/ EmailStep
    \/ SmsStep
    \/ PushStep
    \/ Finish
    \/ Switch

SpecConcurrent == Init /\ [][NextConcurrent]_vars

----------------------------------------------------------------------------
(* What the properties below read off a state.  These are stated on the    *)
(* arguments of the call and on its effects, not on the definitions above. *)

\* the channels argument, with the default of the signature
RequestedList == IF channels_arg.is_none THEN <<"email">> ELSE channels_arg.list

Requested(ch) == \E i \in 1..Len(RequestedList) : RequestedList[i] = ch

FlagOn(ch) ==
    CASE ch = "email" -> config.ENABLE_EMAIL_NOTIFICATIONS
      [] ch = "sms"   -> config.ENABLE_SMS_NOTIFICATIONS
      [] ch = "push"  -> config.ENABLE_PUSH_NOTIFICATIONS

HasPreference(ch) ==
    /\ "preferences" \in DOMAIN user
    /\ ch \in DOMAIN user["preferences"]

OptedOut(ch) == HasPreference(ch) /\ user["preferences"][ch] = FALSE

HasAddress(ch) ==
    CASE ch = "email" -> "email" \in DOMAIN user
      [] ch = "sms"   -> "phone" \in DOMAIN user /\ user["phone"] # ""
      [] ch = "push"  -> "device_tokens" \in DOMAIN user /\ Len(user["device_tokens"]) > 0

Invoked(ch) == \E i \in 1..Len(provider_calls) : provider_calls[i].service = ch

TransportOf(ch) ==
    CASE ch = "email" -> {"sendgrid", "flask_mail"}
      [] ch = "sms"   -> {"twilio"}
      [] ch = "push"  -> {"fcm"}

TransportUsed(ch) ==
    \E i \in 1..Len(transport_calls) : transport_calls[i].transport \in TransportOf(ch)

CallOver == pc \in {"returned", "raised"}

\* user['email'] is evaluated on a record that has no such key
MissingEmailKey == Requested("email") /\ FlagOn("email") /\ "email" \notin DOMAIN user

SkippedWithFalse(ch) ==
    /\ pc = "returned"
    /\ ch \in DOMAIN results
    /\ results[ch] = FALSE
    /\ ~Invoked(ch)
    /\ ~TransportUsed(ch)

----------------------------------------------------------------------------
(* C1: a channel's provider send_template_* is invoked only if the channel *)
(* is in the channels argument, its ENABLE_*_NOTIFICATIONS flag is on, the *)
(* recipient's preference for it is not explicitly false, and (sms) the    *)
(* recipient has a phone / (push) a non-empty device_tokens list.          *)
C1_AttemptOnlyIfGated ==
    \A ch \in Channels :
        Invoked(ch) =>
            /\ Requested(ch)
            /\ FlagOn(ch)
            /\ ~OptedOut(ch)
            /\ (ch \in {"sms", "push"} => HasAddress(ch))

C1_Witness ==
    /\ pc = "returned"
    /\ Invoked("email") /\ Invoked("sms") /\ Invoked("push")
    /\ Len(provider_calls) = 3

(* C2: every key of the result map returned by send_notification is a      *)
(* channel name that occurs in the channels argument (with channels        *)
(* omitted, the only possible key is email).                               *)
C2_ResultKeysRequested ==
    /\ \A k \in DOMAIN results : Requested(k)
    /\ channels_arg.is_none => DOMAIN results \subseteq {"email"}

C2_Witness ==
    /\ pc = "returned"
    /\ ~channels_arg.is_none
    /\ channels_arg.list = <<"sms">>
    /\ config.ENABLE_EMAIL_NOTIFICATIONS /\ config.ENABLE_PUSH_NOTIFICATIONS
    /\ DOMAIN results = {"sms"}

(* C3 as stated: for a recipient whose preference for a requested,         *)
(* flag-enabled channel is explicitly false, send_notification returns a   *)
(* result for that channel with success = false and the channel's provider *)
(* is never invoked during the call.                                       *)
C3_OptOutYieldsFalseResult ==
    \A ch \in Channels :
        (CallOver /\ Requested(ch) /\ FlagOn(ch) /\ OptedOut(ch)) => SkippedWithFalse(ch)

(* C3 amended: the provider of an opted-out channel is never invoked, and  *)
(* the call returns success = false for that channel unless it raises      *)
(* KeyError because email is requested and enabled and the recipient       *)
(* record has no email key.                                                *)
C3_OptOutYieldsFalseResultUnlessKeyError ==
    \A ch \in Channels :
        (Requested(ch) /\ FlagOn(ch) /\ OptedOut(ch)) =>
            /\ ~Invoked(ch)
            /\ (CallOver /\ ~MissingEmailKey) => SkippedWithFalse(ch)
            /\ (CallOver /\ MissingEmailKey) => (pc = "raised" /\ raised = "KeyError")

C3_Witness ==
    /\ pc = "returned"
    /\ channels_arg.list = <<"email", "sms">>
    /\ config.ENABLE_SMS_NOTIFICATIONS
    /\ OptedOut("sms")
    /\ HasAddress("sms")
    /\ DOMAIN results = {"email", "sms"}
    /\ results["email"]
    /\ ~results["sms"]

(* C4 as stated: absence of a preference means opted in, for every         *)
(* channel: with no preference entry for a channel that is requested,      *)
(* enabled and has its address data, send_notification invokes that        *)
(* channel's provider.                                                     *)
C4_AbsentPreferenceOptsIn ==
    \A ch \in Channels :
        (pc = "returned" /\ Requested(ch) /\ FlagOn(ch) /\ ~HasPreference(ch) /\ HasAddress(ch))
            => Invoked(ch)

(* C4 amended: absence of a preference means opted in for email and push   *)
(* (the provider is invoked once the call is over, unless the call raised  *)
(* KeyError on a missing email key), and opted out for sms (the provider   *)
(* is not invoked and the result is false).                                *)
C4_AbsentPreferenceOptsInExceptSms ==
    /\ \A ch \in {"email", "push"} :
         (CallOver /\ ~MissingEmailKey /\ Requested(ch) /\ FlagOn(ch)
            /\ ~HasPreference(ch) /\ HasAddress(ch)) => (pc = "returned" /\ Invoked(ch))
    /\ (Requested("sms") /\ FlagOn("sms") /\ ~HasPreference("sms")) =>
         /\ ~Invoked("sms")
         /\ (CallOver /\ ~MissingEmailKey) => SkippedWithFalse("sms")

C4_Witness ==
    /\ pc = "returned"
    /\ "preferences" \notin DOMAIN user
    /\ channels_arg.list = <<"email", "sms", "push">>
    /\ \A ch \in Channels : FlagOn(ch) /\ HasAddress(ch)
    /\ Invoked("email") /\ Invoked("push") /\ ~Invoked("sms")

(* C5 as stated: when sms is requested for a recipient with no phone, or   *)
(* push for a recipient with no device tokens (flag enabled, not opted     *)
(* out), send_notification returns success = false for that channel and    *)
(* makes no call to that channel's provider or transport.                  *)
C5_MissingAddressYieldsFalseResult ==
    \A ch \in {"sms", "push"} :
        (CallOver /\ Requested(ch) /\ FlagOn(ch) /\ ~OptedOut(ch) /\ ~HasAddress(ch))
            => SkippedWithFalse(ch)

(* C5 amended: no call to the provider or transport is made, and the call  *)
(* returns success = false for that channel unless it raises KeyError      *)
(* because email is requested and enabled and the recipient record has no  *)
(* email key.                                                              *)
C5_MissingAddressYieldsFalseResultUnlessKeyError ==
    \A ch \in {"sms", "push"} :
        (Requested(ch) /\ FlagOn(ch) /\ ~OptedOut(ch) /\ ~HasAddress(ch)) =>
            /\ ~Invoked(ch)
            /\ ~TransportUsed(ch)
            /\ (CallOver /\ ~MissingEmailKey) => SkippedWithFalse(ch)
            /\ (CallOver /\ MissingEmailKey) => (pc = "raised" /\ raised = "KeyError")

C5_Witness ==
    /\ pc = "returned"
    /\ channels_arg.list = <<"email", "sms", "push">>
    /\ \A ch \in Channels : FlagOn(ch) /\ HasPreference(ch) /\ ~OptedOut(ch)
    /\ "phone" \notin DOMAIN user
    /\ "device_tokens" \in DOMAIN user /\ user["device_tokens"] = <<>>
    /\ Invoked("email")
    /\ ~results["sms"] /\ ~results["push"]

(* C6: for every requested channel whose feature flag is off, the result   *)
(* map returned by send_notification contains an entry for that channel    *)
(* with success = false (recorded as skipped, not omitted), and the        *)
(* provider is not invoked.                                                *)
C6_DisabledChannelRecordedFalse ==
    \A ch \in Channels :
        (pc = "returned" /\ Requested(ch) /\ ~FlagOn(ch)) =>
            /\ ch \in DOMAIN results
            /\ results[ch] = FALSE
            /\ ~Invoked(ch)

(* C7: when the caller-supplied variables contain a reserved common key    *)
(* (user_name or user_email), the variables passed to the providers carry  *)
(* the recipient-derived value for that key.                               *)
C7_ReservedKeysFromRecipient ==
    \A i \in 1..Len(provider_calls) :
        /\ provider_calls[i].vars["user_name"] =
              (IF "name" \in DOMAIN user THEN user["name"] ELSE "Alumni")
        /\ provider_calls[i].vars["user_email"] =
              (IF "email" \in DOMAIN user THEN user["email"] ELSE "")

(* C8: when send_notification is called with a template name that is not   *)
(* in the template table and at least one channel passes its gating        *)
(* checks, the call fails with an explicit error delivered to its caller   *)
(* rather than returning a result map.                                     *)
C8_UnknownTemplateRaises ==
    (CallOver /\ template_name \notin DOMAIN templates /\ Len(provider_calls) > 0)
        => pc = "raised"

(* C9: when the channels argument contains a name outside                  *)
(* {email, sms, push}, the call raises a programmer error instead of       *)
(* returning normally.                                                     *)
C9_UnknownChannelRaises ==
    (CallOver /\ \E i \in 1..Len(RequestedList) : RequestedList[i] \notin Channels)
        => pc = "raised"

\* a transport raised, or answered with a rejection
TransportError(call) ==
    \/ call.outcome.exc
    \/ call.transport = "sendgrid" /\ call.outcome.status \notin {200, 201, 202}
    \/ call.transport = "twilio" /\ call.outcome.status \notin {"queued", "sending", "sent"}
    \/ call.transport = "fcm" /\ call.outcome.success_count = 0

ChannelOf(call) == CHOOSE ch \in Channels : call.transport \in TransportOf(ch)

(* C10: a transport error (exception or rejection) during any provider     *)
(* send is never raised out of the send functions, send_notification or    *)
(* send_bulk_notification; the affected channel's result is false and the  *)
(* call returns normally.                                                  *)
C10_TransportErrorsContained ==
    \A i \in 1..Len(transport_calls) :
        TransportError(transport_calls[i]) =>
            /\ raised = "none"
            /\ pc # "raised"
            /\ bulk_raised = "none"
            /\ ChannelOf(transport_calls[i]) \in DOMAIN results
            /\ results[ChannelOf(transport_calls[i])] = FALSE

C10_Witness ==
    /\ caller = "bulk"
    /\ pc = "returned"
    /\ Len(transport_calls) = 3
    /\ \A i \in 1..3 : transport_calls[i].outcome.exc
    /\ results = [c \in Channels |-> FALSE]

----------------------------------------------------------------------------
(* send_bulk_notification: what the properties read off the history *)

BulkTotal == bulk_results.success + bulk_results.failed + bulk_results.skipped

\* the loop is between two recipients, or has returned
BulkAtRest == (bulk_pc = "loop" /\ pc = "idle") \/ bulk_pc = "returned"

EmailRequestedInBulk ==
    /\ config.ENABLE_EMAIL_NOTIFICATIONS
    /\ \/ bulk_args.channels_arg.is_none
       \/ \E i \in 1..Len(bulk_args.channels_arg.list) : bulk_args.channels_arg.list[i] = "email"

(* C11: for every list of recipients on which send_bulk_notification       *)
(* returns, success + failed + skipped equals the number of recipients:    *)
(* each recipient increments exactly one counter exactly once.             *)
C11_CountsSumToRecipients ==
    BulkAtRest =>
        /\ BulkTotal = bulk_i
        /\ Len(bulk_history) = bulk_i
        /\ \A i \in 1..Len(bulk_history) :
             bulk_history[i].counted # "none" /\ bulk_history[i].by = 1

C11_Witness ==
    /\ bulk_pc = "returned"
    /\ bulk_i = 2
    /\ bulk_results.success = 1
    /\ bulk_results.failed = 1

(* C12: a recipient for whom every requested channel was skipped (flag     *)
(* disabled, opted out, or missing address, so that no provider was        *)
(* invoked for them) is counted in skipped and not in failed.              *)
C12_AllSkippedCountsAsSkipped ==
    \A i \in 1..Len(bulk_history) :
        (bulk_history[i].raised = "none" /\ ~bulk_history[i].attempted)
            => bulk_history[i].counted = "skipped"

(* C13: with email requested and enabled, a recipient record that has no   *)
(* email counts as failed (exactly one increment of failed), and every     *)
(* recipient after it in the list is still processed and counted.          *)
C13_MissingEmailCountsAsFailed ==
    \A i \in 1..Len(bulk_history) :
        (EmailRequestedInBulk /\ bulk_history[i].missing_email) =>
            /\ bulk_history[i].counted = "failed"
            /\ bulk_history[i].by = 1
            /\ bulk_pc # "raised"
            /\ bulk_raised = "none"
            /\ BulkAtRest => (Len(bulk_history) = bulk_i /\ BulkTotal = bulk_i)

C13_Witness ==
    /\ EmailRequestedInBulk
    /\ Len(bulk_history) = 2
    /\ bulk_history[1].missing_email
    /\ bulk_history[1].counted = "failed"
    /\ bulk_history[2].counted = "success"
    /\ bulk_results = [success |-> 1, failed |-> 1, skipped |-> 0]

(* C14: the success count equals the number of recipients for whom at      *)
(* least one requested channel's send returned true; a recipient with one  *)
(* failed and one successful channel counts as success, not failed.        *)
C14_SuccessCountsAnyTrue ==
    /\ BulkAtRest =>
         bulk_results.success =
            Cardinality({i \in 1..Len(bulk_history) : bulk_history[i].any_true})
    /\ \A i \in 1..Len(bulk_history) :
         bulk_history[i].any_true <=> bulk_history[i].counted = "success"

C14_Witness ==
    /\ bulk_pc = "returned"
    /\ \E i \in 1..Len(bulk_history) :
         /\ bulk_history[i].any_true
         /\ bulk_history[i].any_false
         /\ bulk_history[i].attempted
         /\ bulk_history[i].counted = "success"
    /\ bulk_results.success = 1
    /\ bulk_results.failed = 0

(* C15: send_bulk_notification never propagates an exception to its        *)
(* caller, also for lists containing recipients that are not well-formed   *)
(* records (e.g. a value that is not a mapping): the failure is caught and *)
(* counted and the counts are returned.                                    *)
C15_BulkNeverRaises ==
    /\ bulk_raised = "none"
    /\ bulk_pc # "raised"
    /\ \A i \in 1..Len(bulk_history) : bulk_history[i].counted # "none"

----------------------------------------------------------------------------
(* The transport calls one channel's provider made in the current call *)

TransportCalls(ch) ==
    SelectSeq(transport_calls, LAMBDA call : call.transport \in TransportOf(ch))

\* the provider of ch has returned to send_notification, and its templates
\* rendered, so that the provider's own send function was called
ProviderReturned(ch) ==
    /\ Invoked(ch)
    /\ ch \in DOMAIN results
    /\ template_name \in DOMAIN templates

\* the delivery states with which Twilio reports a message as not delivered
TwilioFailedStates == {"failed", "undelivered", "canceled"}

----------------------------------------------------------------------------
(* C16: send_push_notification returns true if and only if the provider is *)
(* configured and the multicast reported at least one token as succeeded;  *)
(* a provider that is not configured returns false and makes no FCM call.  *)
C16_PushTrueIffConfiguredAndDelivered ==
    ProviderReturned("push") =>
        /\ results["push"] =
              (/\ fcm_available
               /\ \E i \in 1..Len(TransportCalls("push")) :
                     /\ ~TransportCalls("push")[i].outcome.exc
                     /\ TransportCalls("push")[i].outcome.success_count >= 1)
        /\ (~fcm_available => TransportCalls("push") = <<>>)

\* a configured provider whose multicast answered and reached no token
C16_Witness ==
    /\ ProviderReturned("push")
    /\ fcm_available
    /\ results["push"] = FALSE
    /\ Len(TransportCalls("push")) = 1
    /\ ~TransportCalls("push")[1].outcome.exc
    /\ TransportCalls("push")[1].outcome.success_count = 0

----------------------------------------------------------------------------
(* C17: send_sms returns false and makes no Twilio call when no client was *)
(* built at construction; with a client it returns true only for a message *)
(* Twilio accepted without error and not in a failed state, and false for  *)
(* every failed state.                                                     *)
C17_SmsFalseUnlessConfiguredAndDelivered ==
    ProviderReturned("sms") =>
        /\ ~twilio_client => results["sms"] = FALSE /\ TransportCalls("sms") = <<>>
        /\ twilio_client =>
              /\ Len(TransportCalls("sms")) = 1
              /\ results["sms"] = TRUE =>
                    /\ ~TransportCalls("sms")[1].outcome.exc
                    /\ TransportCalls("sms")[1].outcome.status \notin TwilioFailedStates
              /\ TransportCalls("sms")[1].outcome.status \in TwilioFailedStates =>
                    results["sms"] = FALSE

C17_Witness ==
    /\ ProviderReturned("sms")
    /\ ~twilio_client
    /\ config.ENABLE_SMS_NOTIFICATIONS
    /\ results["sms"] = FALSE

----------------------------------------------------------------------------
(* C18: every send_email call uses exactly one strategy, SendGrid when a   *)
(* client was built at construction and Flask-Mail otherwise, and makes no *)
(* second attempt when that one fails; without a SendGrid client it        *)
(* returns true when the Flask-Mail send succeeds.                         *)
C18_OneEmailStrategyPerCall ==
    ProviderReturned("email") =>
        /\ Len(TransportCalls("email")) = 1
        /\ TransportCalls("email")[1].transport =
              (IF sendgrid_client THEN "sendgrid" ELSE "flask_mail")
        /\ (~sendgrid_client /\ ~TransportCalls("email")[1].outcome.exc)
              => results["email"] = TRUE

\* the chosen strategy failed and the call ended there
C18_Witness ==
    /\ ProviderReturned("email")
    /\ sendgrid_client
    /\ results["email"] = FALSE
    /\ Len(TransportCalls("email")) = 1
    /\ TransportCalls("email")[1].transport = "sendgrid"


----------------------------------------------------------------------------
(* What a render_template call was given *)

Rendering == render_call # NoRenderCall

KnownTemplate ==
    render_call.name \in {"event_created", "rsvp_confirmation", "event_reminder",
                          "event_cancelled"}

KnownSlot ==
    render_call.template_type \in {"subject", "email_body", "sms_body", "push_title",
                                   "push_body"}

\* the call failed with one of the two lookup errors
LookupError == render_result.error = "ValueError"

----------------------------------------------------------------------------
(* C19: render_template fails with an error and returns no string when the *)
(* template name is not in the table, fails with an error when the name is *)
(* known and the slot is not one of its slots, and fails with neither of   *)
(* these errors for a known (template, slot) pair.                         *)
C19_UnknownNameOrSlotFails ==
    Rendering =>
        /\ ~KnownTemplate =>
              /\ ~render_result.ok
              /\ LookupError
              /\ render_result.message = "Template not found"
              /\ render_result.text = <<>>
        /\ (KnownTemplate /\ ~KnownSlot) =>
              /\ ~render_result.ok
              /\ LookupError
              /\ render_result.message = "Template type not found"
              /\ render_result.text = <<>>
        /\ (KnownTemplate /\ KnownSlot) => ~LookupError

\* a known template asked for a slot it does not have
C19_Witness ==
    /\ Rendering
    /\ render_call.name = "event_reminder"
    /\ render_call.template_type = "no_such_slot"
    /\ ~render_result.ok

----------------------------------------------------------------------------
(* C20: for every known (template, slot) pair and every variable map,      *)
(* also one that lacks keys the template references in a substitution or   *)
(* in a conditional, render_template returns a string and never fails.     *)
C20_KnownPairAlwaysRenders ==
    (Rendering /\ KnownTemplate /\ KnownSlot) =>
        /\ render_result.ok
        /\ render_result.error = "none"


----------------------------------------------------------------------------
(* What a rendered rsvp_confirmation email body holds *)

RenderingRsvpBody ==
    /\ Rendering
    /\ render_call.name = "rsvp_confirmation"
    /\ render_call.template_type = "email_body"

\* the rendered string has the piece
HasPiece(piece) ==
    \E i \in 1..Len(render_result.text) : render_result.text[i] = piece

GuestsPositive ==
    /\ "guests" \in DOMAIN render_call.variables
    /\ render_call.variables["guests"] \in {"1", "2", "3"}

NotesNonEmpty ==
    /\ "notes" \in DOMAIN render_call.variables
    /\ render_call.variables["notes"] # ""

----------------------------------------------------------------------------
(* C21: the rendered rsvp_confirmation email_body has the Guests line,     *)
(* with the count, if and only if guests > 0, and the Notes line if and    *)
(* only if notes is non-empty.                                             *)
C21_GuestsAndNotesLines ==
    RenderingRsvpBody =>
        /\ HasPiece("Guests:") <=> GuestsPositive
        /\ GuestsPositive => HasPiece(render_call.variables["guests"])
        /\ HasPiece("Notes:") <=> NotesNonEmpty


----------------------------------------------------------------------------
(* What a send_template_email call was given *)

EmailCalled == email_call # NoEmailCall

EmailTemplateKnown ==
    email_call.name \in {"event_created", "rsvp_confirmation", "event_reminder",
                         "event_cancelled"}

\* what send_email returns for the answer its transport gives: true when
\* the transport takes the message without an error
SendEmailReturns ==
    /\ ~email_call.outcome.exc
    /\ sendgrid_client => email_call.outcome.status \in {200, 201, 202}

----------------------------------------------------------------------------
(* C23: send_template_email, for a known template, renders its slots and   *)
(* returns exactly what send_email returns, also when the variable map     *)
(* omits variables the template references.                                *)
C23_TemplateEmailReturnsSendEmail ==
    (EmailCalled /\ EmailTemplateKnown) =>
        /\ email_result.raised = "none"
        /\ email_result.result = SendEmailReturns
        /\ Len(email_result.transport) = 1


----------------------------------------------------------------------------
(* What the provider invocations of the current call show *)

Rank(ch) == CASE ch = "email" -> 1 [] ch = "sms" -> 2 [] ch = "push" -> 3

Invocations(ch) == SelectSeq(provider_calls, LAMBDA call : call.service = ch)

\* the preference check of the channel: an explicit preference decides, and
\* without one email and push are wanted and sms is not
PassesPreference(ch) ==
    IF HasPreference(ch) THEN user["preferences"][ch] ELSE ch # "sms"

\* the transport of the channel was called and raised or answered a failure
TransportFailed(ch) ==
    \E i \in 1..Len(TransportCalls(ch)) : TransportError(TransportCalls(ch)[i])

----------------------------------------------------------------------------
(* C26: within one send_notification call the providers are invoked in the *)
(* order email, sms, push, whatever the order of the channels argument.    *)
C26_ProvidersInFixedOrder ==
    \A i, j \in 1..Len(provider_calls) :
        i < j => Rank(provider_calls[i].service) < Rank(provider_calls[j].service)

C26_Witness ==
    /\ channels_arg = [is_none |-> FALSE, list |-> <<"push", "sms", "email">>]
    /\ Len(provider_calls) = 3
    /\ provider_calls[1].service = "email"
    /\ provider_calls[3].service = "push"

----------------------------------------------------------------------------
(* C27: when send_notification returns, every requested channel that       *)
(* passes its flag, preference and address checks has had its provider     *)
(* invoked, also when an earlier channel of the call failed.               *)
C27_EveryEligibleChannelAttempted ==
    pc = "returned" =>
        \A ch \in Channels :
            (/\ Requested(ch)
             /\ FlagOn(ch)
             /\ PassesPreference(ch)
             /\ HasAddress(ch)) => Invoked(ch)

\* the email send failed and sms and push were attempted all the same
C27_Witness ==
    /\ pc = "returned"
    /\ Invoked("email")
    /\ TransportFailed("email")
    /\ results["email"] = FALSE
    /\ Invoked("sms")
    /\ Invoked("push")

----------------------------------------------------------------------------
(* C28: no retries.  Within one send_notification call each channel's      *)
(* provider and transport are invoked at most once, and the bulk loop      *)
(* makes one send_notification call for each recipient it takes, also      *)
(* after a failure.                                                        *)
C28_NoRetries ==
    /\ \A ch \in Channels :
          /\ Len(Invocations(ch)) <= 1
          /\ Len(TransportCalls(ch)) <= 1
    /\ bulk_pc = "loop" =>
          bulk_i = Len(bulk_history) + (IF pc = "idle" THEN 0 ELSE 1)

\* a push attempt that failed, seen after its one transport call, in a bulk
\* send whose first recipient was counted as failed
C28_Witness ==
    /\ bulk_pc = "loop"
    /\ Len(bulk_history) = 1
    /\ bulk_history[1].counted = "failed"
    /\ pc = "returned"
    /\ TransportFailed("push")
    /\ Len(TransportCalls("push")) = 1

----------------------------------------------------------------------------
(* C29: provider availability is fixed at construction.  No step of a send *)
(* changes sendgrid_client, twilio_client or fcm_available; a provider     *)
(* that is not available returns false for every send, and one that is     *)
(* available stays so after a failed send.                                 *)
C29_AvailabilityFixed ==
    /\ [](/\ ("sms" \in DOMAIN results /\ ~twilio_client) => ~results["sms"]
          /\ ("push" \in DOMAIN results /\ ~fcm_available) => ~results["push"])
    /\ [][/\ sendgrid_client' = sendgrid_client
          /\ twilio_client' = twilio_client
          /\ fcm_available' = fcm_available]_vars

\* the sms send has failed in the transport and the call has gone on
C29_Witness ==
    /\ pc \in {"push", "returned"}
    /\ twilio_client
    /\ TransportFailed("sms")
    /\ results["sms"] = FALSE

----------------------------------------------------------------------------
(* C30: for a recipient record without an email key, with email requested  *)
(* and the email flag on, send_notification raises and returns no result   *)
(* map, whatever the email preference, and makes no sms or push attempt.   *)
C30_MissingEmailKeyRaises ==
    (pc # "idle" /\ MissingEmailKey) =>
        /\ pc \in {"email", "raised"}
        /\ pc = "raised" => raised = "KeyError"
        /\ provider_calls = <<>>
        /\ transport_calls = <<>>

\* the recipient opted out of email and would have been sent an sms
C30_Witness ==
    /\ pc = "raised"
    /\ MissingEmailKey
    /\ OptedOut("email")
    /\ Requested("sms") /\ FlagOn("sms") /\ PassesPreference("sms") /\ HasAddress("sms")


----------------------------------------------------------------------------
(* C24: send_notification and send_bulk_notification never modify the      *)
(* recipient record or the variables mapping they are given: from the      *)
(* entry of a call to its return or its exception both stay what they      *)
(* were, and every call the bulk loop makes sees the variables mapping the *)
(* bulk call was given.                                                    *)
C24_ArgumentsNeverModified ==
    /\ []((caller = "bulk" /\ pc # "idle") => variables = bulk_args.variables)
    /\ [][/\ (pc # "idle" /\ pc' # "idle") => (user' = user /\ variables' = variables)
          /\ (bulk_pc = "loop" /\ bulk_pc' = "loop") => bulk_args' = bulk_args]_vars

\* a call of the bulk loop that ended in an exception, for a recipient
\* without preferences
C24_Witness ==
    /\ caller = "bulk"
    /\ pc = "raised"
    /\ "name" \in DOMAIN user
    /\ "preferences" \notin DOMAIN user
    /\ variables = PlainVariables


----------------------------------------------------------------------------
(* C22: calling send_notification twice with identical arguments against   *)
(* providers that always succeed returns two identical result maps (and    *)
(* raises the second time exactly if it raised the first time).            *)
C22_SecondCallSameResults ==
    (/\ pc \in {"returned", "raised"}
     /\ previous.calls = 1
     /\ previous.succeeded
     /\ AllSucceeded) =>
        /\ results = previous.results
        /\ raised = previous.raised

\* the second of two calls that each sent over all three channels
C22_Witness ==
    /\ pc = "returned"
    /\ previous.calls = 1
    /\ previous.succeeded
    /\ AllSucceeded
    /\ Len(transport_calls) = 3
    /\ results = [email |-> TRUE, sms |-> TRUE, push |-> TRUE]


----------------------------------------------------------------------------
(* What the call of the running thread returns when it runs alone: the     *)
(* three blocks of send_notification one after the other, on the call's    *)
(* arguments and on the answers its transports gave.                       *)

\* the answer the transport of ch gave this call (a refusal if none did)
AnswerOf(ch) ==
    IF TransportCalls(ch) # <<>> THEN TransportCalls(ch)[1].outcome
    ELSE [exc |-> TRUE, status |-> 0, success_count |-> 0]

AloneChannels == DefaultChannels(channels_arg)

AloneVars == CommonVars(user, variables)

AloneEmail ==
    IF ~(InList("email", AloneChannels) /\ config.ENABLE_EMAIL_NOTIFICATIONS)
    THEN [raised |-> "none", results |-> EmptyDict]
    ELSE IF EmailAllowed(user)
    THEN IF "email" \in DOMAIN user
         THEN [raised |-> "none",
               results |-> Put(EmptyDict, "email",
                               send_template_email(user["email"], template_name, AloneVars,
                                                   AnswerOf("email")).result)]
         ELSE [raised |-> "KeyError", results |-> EmptyDict]
    ELSE [raised |-> IF "email" \in DOMAIN user THEN "none" ELSE "KeyError",
          results |-> Put(EmptyDict, "email", FALSE)]

AloneSms ==
    IF AloneEmail.raised # "none"
          \/ ~(InList("sms", AloneChannels) /\ config.ENABLE_SMS_NOTIFICATIONS)
    THEN AloneEmail
    ELSE [raised |-> "none",
          results |-> Put(AloneEmail.results, "sms",
                          IF SmsAllowed(user)
                          THEN send_template_sms(user["phone"], template_name, AloneVars,
                                                 AnswerOf("sms")).result
                          ELSE FALSE)]

AlonePush ==
    IF AloneSms.raised # "none"
          \/ ~(InList("push", AloneChannels) /\ config.ENABLE_PUSH_NOTIFICATIONS)
    THEN AloneSms
    ELSE [raised |-> "none",
          results |-> Put(AloneSms.results, "push",
                          IF PushAllowed(user)
                          THEN send_template_push(user["device_tokens"], template_name,
                                                  AloneVars, AnswerOf("push")).result
                          ELSE FALSE)]

----------------------------------------------------------------------------
(* C25: two send_notification calls on one manager, interleaved at any     *)
(* point, each return the result map (or raise the exception) they would   *)
(* when run alone.                                                         *)
C25_ConcurrentCallsAsAlone ==
    /\ pc = "returned" => (AlonePush.raised = "none" /\ results = AlonePush.results)
    /\ pc = "raised" => raised = AlonePush.raised

\* a call that returned while the other thread's call was under way, each
\* with sends of its own behind it
C25_Witness ==
    /\ pc = "returned"
    /\ Len(transport_calls) >= 2
    /\ other.pc = "push"
    /\ Len(other.transport_calls) >= 1
    /\ other.results # results


====
